---------------------------- MODULE Spec2Model ----------------------------
(***************************************************************************)
(* Hybrid retrieval pipeline of the Mercil repository.                     *)
(*                                                                         *)
(*   src/HybridSearch.py  in-memory variant: llm_understand_query, search, *)
(*                        semantic_search, embed_texts                     *)
(*   src/search.py        database-backed variant: llm_understand_query,   *)
(*                        search_assets                                    *)
(*                                                                         *)
(* Encodings                                                               *)
(*   string   a sequence of one-character strings; the in operator on strings is      *)
(*            contiguous-subsequence containment, strip() drops leading    *)
(*            and trailing " ".                                            *)
(*   price    a pair <<millions, units>> standing for millions*10^6+units  *)
(*            (0 <= units < 10^6), compared lexicographically; the         *)
(*            encoding keeps 999999999999 exact within 32-bit integers.    *)
(*   score    a float32, as a pair <<halves, ulps>> standing for           *)
(*            halves/2 + ulps/2^24 (0 <= ulps < 2^23), compared            *)
(*            lexicographically: 1.0 is <<2, 0>>, the boost 0.5 is <<1, 0>>;*)
(*            a sum stored in a float32 array is rounded to float32.       *)
(*   vector   a pair of components; the documents' vectors lie along an    *)
(*            axis and the query's vectors are the unit axis vectors.      *)
(*   value    a Python/JSON value is a record [t, s, n] with a type tag t, *)
(*            string payload s and numeric payload n.                      *)
(***************************************************************************)
EXTENDS Integers, Sequences, FiniteSets, TLC

\* ------------------------------------------------------------------------
\* Bounds of the model
\* ------------------------------------------------------------------------
MaxDocs == 2

MaxK == 2

\* ------------------------------------------------------------------------
\* Python values
\* ------------------------------------------------------------------------
Zero == <<0, 0>>

PyNone == [t |-> "none", s |-> <<>>, n |-> Zero]

PyStr(s) == [t |-> "str", s |-> s, n |-> Zero]

PyNum(n) == [t |-> "num", s |-> <<>>, n |-> n]

PyList == [t |-> "list", s |-> <<>>, n |-> Zero]

IsNone(v) == v.t = "none"

IsStr(v) == v.t = "str"

IsNum(v) == v.t = "num"

\* Python truthiness: None, "", 0 are falsy; the model's list value is the
\* non-empty list [1].
Truthy(v) ==
    CASE v.t = "none" -> FALSE
      [] v.t = "str"  -> v.s # <<>>
      [] v.t = "num"  -> v.n # Zero
      [] OTHER        -> TRUE

\* x or y
PyOr(x, y) == IF Truthy(x) THEN x ELSE y

\* ------------------------------------------------------------------------
\* Strings
\* ------------------------------------------------------------------------
RECURSIVE LStrip(_)
LStrip(s) == IF s # <<>> /\ Head(s) = " " THEN LStrip(Tail(s)) ELSE s

RECURSIVE RStrip(_)
RStrip(s) ==
    IF s # <<>> /\ s[Len(s)] = " " THEN RStrip(SubSeq(s, 1, Len(s) - 1)) ELSE s

\* str.strip()
Strip(s) == RStrip(LStrip(s))

\* a in b, for strings a and b
Contains(b, a) ==
    \E i \in 1..(Len(b) - Len(a) + 1) : SubSeq(b, i, i + Len(a) - 1) = a

\* ------------------------------------------------------------------------
\* Prices
\* ------------------------------------------------------------------------
PriceLeq(a, b) == a[1] < b[1] \/ (a[1] = b[1] /\ a[2] <= b[2])

PriceGeq(a, b) == PriceLeq(b, a)


\* ------------------------------------------------------------------------
\* The capability's response text and json.loads
\*
\* A response text is a sequence of tokens: prose words, code-fence marks,
\* the word json, braces, object members ("key": value, separators implied)
\* and scalar JSON literals (a number, a string, a list, null).
\* ------------------------------------------------------------------------
Keys == {"clean_query", "type_name", "min_price", "max_price", "location"}

Tok(k) == [k |-> k, key |-> "", val |-> PyNone]

Member(key, val) == [k |-> "member", key |-> key, val |-> val]

Lit(val) == [k |-> "lit", key |-> "", val |-> val]

LBrace == Tok("{")

RBrace == Tok("}")

Word == Tok("w")

Fence == Tok("fence")

JsonWord == Tok("json")

Space == Tok(" ")

RECURSIVE LStripText(_)
LStripText(x) == IF x # <<>> /\ Head(x) = Space THEN LStripText(Tail(x)) ELSE x

RECURSIVE RStripText(_)
RStripText(x) ==
    IF x # <<>> /\ x[Len(x)] = Space
    THEN RStripText(SubSeq(x, 1, Len(x) - 1))
    ELSE x

\* resp.text.strip()
StripText(x) == RStripText(LStripText(x))

\* text.find(tok): the first index of tok, 0 when there is none (Python's -1)
Find(x, tok) ==
    IF \E i \in 1..Len(x) : x[i] = tok
    THEN CHOOSE i \in 1..Len(x) : x[i] = tok /\ \A j \in 1..(i - 1) : x[j] # tok
    ELSE 0

\* text.rfind(tok): the last index of tok, 0 when there is none
RFind(x, tok) ==
    IF \E i \in 1..Len(x) : x[i] = tok
    THEN CHOOSE i \in 1..Len(x) :
             x[i] = tok /\ \A j \in (i + 1)..Len(x) : x[j] # tok
    ELSE 0

\* The result of json.loads: ok is FALSE for a JSONDecodeError; a parsed
\* object is a dict d (a key that is missing reads as None, as dict.get
\* reads it); any other parsed value is v.
NoDict == [key \in Keys |-> PyNone]

ParseError == [ok |-> FALSE, isdict |-> FALSE, d |-> NoDict, v |-> PyNone]

ParsedValue(v) == [ok |-> TRUE, isdict |-> FALSE, d |-> NoDict, v |-> v]

ParsedDict(d) == [ok |-> TRUE, isdict |-> TRUE, d |-> d, v |-> PyNone]

\* The members of an object text, later members overriding earlier ones.
RECURSIVE DictOf(_)
DictOf(ms) ==
    IF ms = <<>>
    THEN NoDict
    ELSE LET last == ms[Len(ms)]
         IN  [DictOf(SubSeq(ms, 1, Len(ms) - 1)) EXCEPT ![last.key] = last.val]

\* Leading and trailing whitespace is skipped by json.loads.
JsonLoadsMissingBrace(x) ==
    LET y == StripText(x)
    IN  IF Len(y) = 1 /\ y[1].k = "lit"
        THEN ParsedValue(y[1].val)
        ELSE IF /\ Len(y) >= 1
                /\ y[1] = LBrace
                /\ \A i \in 2..Len(y) : y[i].k = "member"
             THEN ParsedDict(DictOf(SubSeq(y, 2, Len(y))))
             ELSE ParseError

JsonLoads(x) ==
    LET y == StripText(x)
    IN  IF Len(y) = 1 /\ y[1].k = "lit"
        THEN ParsedValue(y[1].val)
        ELSE IF /\ Len(y) >= 2
                /\ y[1] = LBrace
                /\ y[Len(y)] = RBrace
                /\ \A i \in 2..(Len(y) - 1) : y[i].k = "member"
             THEN ParsedDict(DictOf(SubSeq(y, 2, Len(y) - 1)))
             ELSE ParseError

\* float(v) inside _to_float: a number converts, a string converts when it
\* spells a number (the model's digit strings), anything else raises
\* TypeError or ValueError.  ok is FALSE when float raised.
DigitValue(c) ==
    CASE c = "0" -> 0 [] c = "1" -> 1 [] c = "2" -> 2 [] OTHER -> -1

Float(v) ==
    CASE v.t = "num" -> [ok |-> TRUE, n |-> v.n]
      [] v.t = "str" ->
           LET s == Strip(v.s)
           IN  IF Len(s) = 1 /\ DigitValue(s[1]) >= 0
               THEN [ok |-> TRUE, n |-> <<0, DigitValue(s[1])>>]
               ELSE [ok |-> FALSE, n |-> Zero]
      [] OTHER -> [ok |-> FALSE, n |-> Zero]

\* ------------------------------------------------------------------------
\* llm_understand_query (HybridSearch.py)
\* ------------------------------------------------------------------------
\* An outcome of client.models.generate_content: it raises, or its text is
\* None, or it carries a text.
Raises == [kind |-> "raise", text |-> <<>>]

NoText == [kind |-> "notext", text |-> <<>>]

Text(x) == [kind |-> "text", text |-> x]

Intent(cq, ty, mn, mx, loc) ==
    [clean_query |-> cq, type_name |-> ty, min_price |-> mn,
     max_price |-> mx, location |-> loc]

\* The except branch: the raw query and nothing else.
FallbackIntent(raw_query) ==
    Intent(PyStr(raw_query), PyNone, PyNone, PyNone, PyNone)

\* The substring between the first "{" and the last "}", when there is one.
ExtractJson(text) ==
    LET start == Find(text, LBrace)
        end   == RFind(text, RBrace)
    IN  IF start # 0 /\ end # 0 /\ end > start
        THEN SubSeq(text, start, end)
        ELSE text

\* x = data.get(key) or None; if isinstance(x, str): x = x.strip() or None
StripOrNone(v) ==
    LET x == PyOr(v, PyNone)
    IN  IF IsStr(x) THEN PyOr(PyStr(Strip(x.s)), PyNone) ELSE x

ToFloat(v) ==
    IF IsNone(v)
    THEN PyNone
    ELSE IF Float(v).ok THEN PyNum(Float(v).n) ELSE PyNone

\* The try block after a successful json.loads of an object.
IntentOfDict(d, raw_query) ==
    Intent(PyOr(d["clean_query"], PyStr(raw_query)),
           StripOrNone(d["type_name"]),
           ToFloat(d["min_price"]),
           ToFloat(d["max_price"]),
           StripOrNone(d["location"]))

\* Whether the try block runs to its return: the capability returned a text
\* that json.loads parses to an object (data.get raises AttributeError on
\* any other value).
Understood(outcome) ==
    /\ outcome.kind = "text"
    /\ JsonLoads(ExtractJson(StripText(outcome.text))).isdict

llm_understand_query(raw_query, outcome) ==
    IF Understood(outcome)
    THEN IntentOfDict(JsonLoads(ExtractJson(StripText(outcome.text))).d,
                      raw_query)
    ELSE FallbackIntent(raw_query)


\* ------------------------------------------------------------------------
\* llm_understand_query (search.py)
\* ------------------------------------------------------------------------
\* text_resp.split(fence)[1]: the text between the first and the second
\* code fence, or to the end when there is no second one.
AfterFirstFence(x) ==
    LET rest == SubSeq(x, Find(x, Fence) + 1, Len(x))
    IN  IF Find(rest, Fence) = 0
        THEN rest
        ELSE SubSeq(rest, 1, Find(rest, Fence) - 1)

\* .replace("json", "")
RECURSIVE DropJsonWord(_)
DropJsonWord(x) ==
    IF x = <<>>
    THEN <<>>
    ELSE IF Head(x) = JsonWord
         THEN DropJsonWord(Tail(x))
         ELSE <<Head(x)>> \o DropJsonWord(Tail(x))

Unfence(x) ==
    IF x # <<>> /\ Head(x) = Fence
    THEN StripText(DropJsonWord(AfterFirstFence(x)))
    ELSE x

\* Returns whatever json.loads returns, a dict or not; {} when anything in
\* the try block raised.
db_llm_understand_query(outcome) ==
    IF outcome.kind = "text" /\ JsonLoads(Unfence(StripText(outcome.text))).ok
    THEN JsonLoads(Unfence(StripText(outcome.text)))
    ELSE ParsedDict(NoDict)

\* ------------------------------------------------------------------------
\* semantic_search (HybridSearch.py)
\* ------------------------------------------------------------------------
\* The number of float32 steps of 2^-24 in 0.5
HalfUlps == 8388608

ScoreZero == <<0, 0>>

Normal(halves, ulps) == <<halves + (ulps \div HalfUlps), ulps % HalfUlps>>

ScoreAdd(a, b) == Normal(a[1] + b[1], a[2] + b[2])

ScoreSub(a, b) == Normal(a[1] - b[1], a[2] - b[2])

ScoreLt(a, b) == a[1] < b[1] \/ (a[1] = b[1] /\ a[2] < b[2])

ScoreLeq(a, b) == a = b \/ ScoreLt(a, b)

\* The float32 nearest to a sum below 2.0, ties to the even mantissa: from
\* 1.0 on, float32 values are 2^-23 apart, below 1.0 at most 2^-24 apart.
Round32(a) ==
    IF a[1] \in {2, 3}
    THEN CASE a[2] % 4 = 1 -> <<a[1], a[2] - 1>>
           [] a[2] % 4 = 3 -> Normal(a[1], a[2] + 1)
           [] OTHER        -> a
    ELSE a

\* 0.5, -1e9 and -1e8
BOOST == <<1, 0>>

SENTINEL == <<-2000000000, 0>>

THRESHOLD == <<-200000000, 0>>

\* The inner product with a unit axis vector q (components 0 or 1).
Dot(v, q) ==
    ScoreAdd(Normal(v[1][1] * q[1], v[1][2] * q[1]),
             Normal(v[2][1] * q[2], v[2][2] * q[2]))

\* scores = np.dot(doc_embeddings, query_vec[0])
BaseScores(embeddings, q) ==
    [i \in 1..Len(embeddings) |-> Dot(embeddings[i], q)]

\* str.lower(), on the model's one capital letter
Lower(c) == IF c = "R" THEN "r" ELSE c

LowerStr(x) == [i \in 1..Len(x) |-> Lower(x[i])]

\* location in doc["text"] or in the road or in the village
MatchesLocationAnyCase(doc, location) ==
    \/ Contains(LowerStr(doc.text), LowerStr(location))
    \/ Contains(LowerStr(doc.road), LowerStr(location))
    \/ Contains(LowerStr(doc.village), LowerStr(location))

MatchesLocation(doc, location) ==
    \/ Contains(doc.text, location)
    \/ Contains(doc.road, location)
    \/ Contains(doc.village, location)

\* scores += is_match_location * 0.5, when a location is given
BoostedOrDropped(docs, base, location) ==
    IF Truthy(location)
    THEN [i \in 1..Len(base) |->
            IF MatchesLocation(docs[i], location.s)
            THEN Round32(ScoreAdd(base[i], BOOST))
            ELSE SENTINEL]
    ELSE base

Boosted(docs, base, location) ==
    IF Truthy(location)
    THEN [i \in 1..Len(base) |->
            Round32(ScoreAdd(base[i],
                             IF MatchesLocation(docs[i], location.s)
                             THEN BOOST
                             ELSE ScoreZero))]
    ELSE base

TypeKeeps(doc, type_name) ==
    Truthy(type_name) => (IsStr(type_name) /\ doc.type_name = type_name.s)

MinKeepsAbsent(doc, min_price) ==
    (~IsNone(min_price)) =>
        (IsNone(doc.price_value) \/ PriceGeq(doc.price_value.n, min_price.n))

MinKeeps(doc, min_price) ==
    (~IsNone(min_price)) =>
        (~IsNone(doc.price_value) /\ PriceGeq(doc.price_value.n, min_price.n))

MaxKeeps(doc, max_price) ==
    (~IsNone(max_price)) =>
        (~IsNone(doc.price_value) /\ PriceLeq(doc.price_value.n, max_price.n))

\* The hard-filter mask: type, min price and max price, ANDed.
MaskRelaxed(docs, type_name, min_price, max_price) ==
    LET m == [i \in 1..Len(docs) |->
                 /\ TypeKeeps(docs[i], type_name)
                 /\ MinKeeps(docs[i], min_price)
                 /\ MaxKeeps(docs[i], max_price)]
    IN  IF \A i \in 1..Len(docs) : ~m[i]
        THEN [i \in 1..Len(docs) |-> TRUE]
        ELSE m

Mask(docs, type_name, min_price, max_price) ==
    [i \in 1..Len(docs) |->
        /\ TypeKeeps(docs[i], type_name)
        /\ MinKeeps(docs[i], min_price)
        /\ MaxKeeps(docs[i], max_price)]

\* not mask.any()
NoneKept(m) == \A i \in 1..Len(m) : ~m[i]

\* filtered_scores[~mask] = -1e9
FilteredScores(scores, mask) ==
    [i \in 1..Len(scores) |-> IF mask[i] THEN scores[i] ELSE SENTINEL]

Orders(n) ==
    {p \in [1..n -> 1..n] : \A i, j \in 1..n : i # j => p[i] # p[j]}

\* np.argsort(filtered_scores): the default sort is not stable, so the
\* order of equal scores is whichever the numpy build produces.
ArgsortOutcomes(fs) ==
    {p \in Orders(Len(fs)) :
        \A i, j \in 1..Len(fs) : i < j => ScoreLeq(fs[p[i]], fs[p[j]])}

Reverse(x) == [i \in 1..Len(x) |-> x[Len(x) + 1 - i]]

\* x[:k]
SliceOneMore(x, k) ==
    IF k >= 0
    THEN SubSeq(x, 1, IF k + 1 < Len(x) THEN k + 1 ELSE Len(x))
    ELSE SubSeq(x, 1, Len(x) + k)

Slice(x, k) ==
    IF k >= 0
    THEN SubSeq(x, 1, IF k < Len(x) THEN k ELSE Len(x))
    ELSE SubSeq(x, 1, Len(x) + k)

\* np.argsort(filtered_scores)[::-1][:top_k], for one outcome of argsort
TopIndicesAscending(order, top_k) == Slice(order, top_k)

TopIndices(order, top_k) == Slice(Reverse(order), top_k)

\* The loop over top_indices: entries at or below -1e8 are skipped.
RECURSIVE Collect(_, _)
Collect(idxs, fs) ==
    IF idxs = <<>>
    THEN <<>>
    ELSE IF ScoreLeq(fs[Head(idxs)], THRESHOLD)
         THEN Collect(Tail(idxs), fs)
         ELSE <<[idx |-> Head(idxs), score |-> fs[Head(idxs)]]>>
              \o Collect(Tail(idxs), fs)


\* ------------------------------------------------------------------------
\* Input domains
\* ------------------------------------------------------------------------
\* Category labels of the type catalog ("h" house, "c" condo), a label that
\* is not in the catalog ("z"), a location ("r"), query texts ("q", "n").
H == <<"h">>

C == <<"c">>

Z == <<"z">>

R == <<"r">>

UpperR == <<"R">>

Q == <<"q">>

N == <<"n">>

Blank == <<" ">>

Dash == <<"-">>

asset_type_names == {H, C}

Million == <<1, 0>>

Price15 == <<1, 500000>>

TwoMillion == <<2, 0>>

\* One row as load_data builds it: text joins type, road, village.
Document(type_name, price_value, road, vec) ==
    [type_name   |-> type_name,
     price_value |-> price_value,
     text        |-> type_name \o <<"|">> \o road \o <<"|">> \o Dash,
     road        |-> road,
     village     |-> Dash,
     vec         |-> vec]

\* The query's vectors: the unit axis vectors.
Vectors == {<<1, 0>>, <<0, 1>>}

\* A component of a document's float32 vector: 0.5 + 2^-24, a float32 whose
\* last mantissa bit is set.
Similar == <<1, 1>>

AlongFirst == <<Similar, ScoreZero>>

AlongSecond == <<ScoreZero, Similar>>

\* Type and price of a row; road and vector of a row.
TypedPrices ==
    {<<H, PyNone>>, <<H, PyNum(Million)>>, <<H, PyNum(TwoMillion)>>,
     <<C, PyNum(TwoMillion)>>}

Placements == {<<Dash, AlongFirst>>, <<R, AlongFirst>>, <<Dash, AlongSecond>>}

DocKinds ==
    {Document(tp[1], tp[2], pl[1], pl[2]) : tp \in TypedPrices, pl \in Placements}

PipelineDocKinds ==
    {Document(H, PyNum(Million), R, AlongFirst),
     Document(H, PyNone, Dash, AlongFirst)}

Collections(kinds, n) == UNION {[1..m -> kinds] : m \in 0..n}

EmbeddingsOf(docs) == [i \in 1..Len(docs) |-> docs[i].vec]

TopKs == (-1)..MaxK

\* The request body as pydantic validated it.
Request(query, top_k, min_price, max_price, type_name) ==
    [query |-> query, top_k |-> top_k, min_price |-> min_price,
     max_price |-> max_price, type_name |-> type_name]

Requests ==
    {Request(PyStr(q), k, mn, mx, ty) :
        q \in {Q, H},
        k \in {MaxK},
        mn \in {PyNone, PyNum(Zero)},
        mx \in {PyNone, PyNum(Price15)},
        ty \in {PyNone, PyStr(C)}}

\* The values the capability may give each field of its JSON object.
FieldValues(key) ==
    CASE key = "clean_query" -> {PyStr(N), PyStr(H), PyStr(<<>>), PyNum(<<0, 5>>)}
      [] key = "type_name"   -> {PyStr(H), PyStr(Z), PyStr(Blank), PyNum(<<0, 5>>)}
      [] key = "min_price"   -> {PyNum(Price15), PyNum(Zero), PyStr(<<"2">>),
                                 PyStr(<<"x">>)}
      [] key = "max_price"   -> {PyNum(Price15), PyStr(<<"x">>)}
      [] key = "location"    -> {PyStr(R), PyStr(N), PyStr(Blank), PyNum(<<0, 5>>)}

KeyOrder == <<"clean_query", "type_name", "min_price", "max_price", "location">>

KeyIndex(key) == CHOOSE i \in 1..Len(KeyOrder) : KeyOrder[i] = key

FieldMembers == UNION {{Member(key, val) : val \in FieldValues(key)} : key \in Keys}

\* The member lists of the objects: none, one, or two in key order of
\* which one is a usable type_name or location.
Companions == {Member("type_name", PyStr(H)), Member("location", PyStr(R))}

MemberLists ==
    {<<>>}
    \cup {<<m>> : m \in FieldMembers}
    \cup {ms \in {<<m1, m2>> : m1 \in FieldMembers, m2 \in FieldMembers} :
             /\ KeyIndex(ms[1].key) < KeyIndex(ms[2].key)
             /\ (ms[1] \in Companions \/ ms[2] \in Companions)}

Object(ms) == <<LBrace>> \o ms \o <<RBrace>>

SampleObject == Object(<<Member("type_name", PyStr(H))>>)

ResponseTexts ==
    {Object(ms) : ms \in MemberLists}
    \cup {<<>>, <<Word>>, <<LBrace, Member("type_name", PyStr(H))>>,
          <<Word, LBrace, Word, RBrace>>,
          <<Lit(PyNum(<<0, 5>>))>>, <<Lit(PyStr(Q))>>, <<Lit(PyList)>>,
          <<Lit(PyNone)>>,
          <<Word>> \o SampleObject \o <<Word>>,
          <<Space>> \o SampleObject \o <<Space>>,
          <<Fence, JsonWord>> \o SampleObject \o <<Fence>>,
          <<Fence, JsonWord, Lit(PyNum(<<0, 5>>)), Fence>>}

Outcomes == {Raises, NoText} \cup {Text(x) : x \in ResponseTexts}


\* ------------------------------------------------------------------------
\* State
\* ------------------------------------------------------------------------
VARIABLES
    documents,        \* HybridSearch.documents, and the rows of table assets
    doc_embeddings,   \* HybridSearch.doc_embeddings, index-aligned
    endpoint,         \* "search", "search_assets" or "semantic_search"
    request,          \* the request as received
    req,              \* the request object the handler mutates
    outcome,          \* the capability's latest outcome
    llm_info,         \* what llm_understand_query returned
    args,             \* the arguments of the semantic_search call
    query_vec,        \* the query embedding, <<>> when there is none
    scores,           \* base scores plus boost
    mask,             \* the hard-filter mask
    filtered_scores,  \* scores with the sentinel on masked-out entries
    results,          \* the ranked result list
    final,            \* search_assets: the merged query and filters
    selected,         \* search_assets: the rows the WHERE clause keeps
    status,           \* "running", "ok", or "error" (an exception, HTTP 500)
    pc,               \* the handler's position
    llm_calls,        \* calls of llm_understand_query in this request
    embed_calls       \* calls of the Embedder in this request

vars ==
    <<documents, doc_embeddings, endpoint, request, req, outcome, llm_info,
      args, query_vec, scores, mask, filtered_scores, results, final,
      selected, status, pc, llm_calls, embed_calls>>

store == <<documents, doc_embeddings, endpoint, request>>

ranking == <<query_vec, scores, mask, filtered_scores>>

Args(query, top_k, min_price, max_price, type_name, location) ==
    [query |-> query, top_k |-> top_k, min_price |-> min_price,
     max_price |-> max_price, type_name |-> type_name, location |-> location]

NoArgs == Args(PyNone, 0, PyNone, PyNone, PyNone, PyNone)

NoFinal ==
    [final_query |-> PyNone, final_type |-> PyNone, final_min |-> PyNone,
     final_max |-> PyNone, location_boost |-> PyNone]

NoRequest == Request(PyNone, 0, PyNone, PyNone, PyNone)

\* Everything a handler has not assigned yet.
Fresh ==
    /\ outcome = NoText
    /\ llm_info = ParsedDict(NoDict)
    /\ query_vec = <<>>
    /\ scores = <<>>
    /\ mask = <<>>
    /\ filtered_scores = <<>>
    /\ results = <<>>
    /\ final = NoFinal
    /\ selected = {}
    /\ status = "running"
    /\ llm_calls = 0
    /\ embed_calls = 0

\* A request arrives at one of the two endpoints; the documents and their
\* embeddings were loaded when the process started.
Init ==
    /\ documents \in Collections(PipelineDocKinds, MaxDocs)
    /\ doc_embeddings = EmbeddingsOf(documents)
    /\ endpoint \in {"search", "search_assets"}
    /\ request \in Requests
    /\ req = request
    /\ args = NoArgs
    /\ pc = "received"
    /\ Fresh

\* semantic_search called directly; the embeddings are empty when the
\* start-up embedding failed.
RankInit ==
    /\ documents \in Collections(DocKinds, MaxDocs)
    /\ doc_embeddings \in {EmbeddingsOf(documents), <<>>}
    /\ endpoint = "semantic_search"
    /\ request = NoRequest
    /\ req = request
    /\ args \in {Args(PyStr(Q), k, mn, mx, ty, loc) :
                    k \in TopKs,
                    mn \in {PyNone, PyNum(Price15)},
                    mx \in {PyNone, PyNum(Price15)},
                    ty \in {PyNone, PyStr(H)},
                    loc \in {PyNone, PyStr(R), PyStr(UpperR)}}
    /\ pc = "ss_entry"
    /\ Fresh


\* ------------------------------------------------------------------------
\* search (HybridSearch.py): intent resolution and query augmentation
\* ------------------------------------------------------------------------
\* The fixed connective of f"{req.query} ... {loc}": a space, the word, a
\* space ("t" stands for the word).
Connective == <<" ", "t", " ">>

\* req.query after: if llm_info.get("clean_query"): req.query = ...
RewrittenQuery(r, info) ==
    IF Truthy(info.clean_query) THEN info.clean_query ELSE r.query

\* if llm_info.get("type_name") and not req.type_name
AdoptedType(r, info) ==
    IF Truthy(info.type_name) /\ ~Truthy(r.type_name)
    THEN info.type_name
    ELSE r.type_name

\* if llm_info.get("min_price") is not None and req.min_price is None
IntentFirstMin(r, info) ==
    IF ~IsNone(info.min_price) THEN info.min_price ELSE r.min_price

AdoptedMin(r, info) ==
    IF ~IsNone(info.min_price) /\ IsNone(r.min_price)
    THEN info.min_price
    ELSE r.min_price

AdoptedMax(r, info) ==
    IF ~IsNone(info.max_price) /\ IsNone(r.max_price)
    THEN info.max_price
    ELSE r.max_price

\* loc not in req.query raises TypeError unless both are strings.
LocationTestRaises(r, info) ==
    /\ Truthy(info.location)
    /\ ~(IsStr(RewrittenQuery(r, info)) /\ IsStr(info.location))

\* req.query after the location was appended to it
LocatedQuery(r, info) ==
    LET q   == RewrittenQuery(r, info)
        loc == info.location
    IN  IF Truthy(loc) /\ ~Contains(q.s, loc.s)
        THEN PyStr(q.s \o Connective \o loc.s)
        ELSE q

\* req.query.strip() raises AttributeError unless req.query is a string.
AugmentRaises(r, info) ==
    LocationTestRaises(r, info) \/ ~IsStr(LocatedQuery(r, info))

\* q in asset_type_names and not req.type_name
AutoType(r, info) ==
    LET q  == Strip(LocatedQuery(r, info).s)
        ty == AdoptedType(r, info)
    IN  IF q \in asset_type_names /\ ~Truthy(ty) THEN PyStr(q) ELSE ty

Augmented(r, info) ==
    Request(LocatedQuery(r, info), r.top_k, AdoptedMin(r, info),
            AdoptedMax(r, info), AutoType(r, info))

\* llm_understand_query(req.query), called at the top of search and again
\* after the docstring; the second result replaces the first.
Resolve(from, to) ==
    /\ pc = from
    /\ endpoint = "search"
    /\ \E o \in Outcomes :
        /\ outcome' = o
        /\ llm_info' = ParsedDict(llm_understand_query(req.query.s, o))
    /\ llm_calls' = llm_calls + 1
    /\ pc' = to
    /\ UNCHANGED <<store, req, args, ranking, results, final, selected,
                   status, embed_calls>>

ResolveFirst == Resolve("received", "docstring")

ResolveAgain == Resolve("docstring", "resolved")

\* The augmentation block, up to the call of semantic_search.
Augment ==
    /\ pc = "resolved"
    /\ IF AugmentRaises(req, llm_info.d)
       THEN /\ status' = "error"
            /\ pc' = "done"
            /\ UNCHANGED <<req, args>>
       ELSE /\ req' = Augmented(req, llm_info.d)
            /\ args' = Args(req'.query, req'.top_k, req'.min_price,
                            req'.max_price, req'.type_name,
                            llm_info.d.location)
            /\ pc' = "ss_entry"
            /\ UNCHANGED status
    /\ UNCHANGED <<store, outcome, llm_info, ranking, results, final,
                   selected, llm_calls, embed_calls>>

\* ------------------------------------------------------------------------
\* semantic_search, step by step
\* ------------------------------------------------------------------------
\* if len(doc_embeddings) == 0: return []
SsEnterUnguarded ==
    /\ pc = "ss_entry"
    /\ pc' = "embed"
    /\ UNCHANGED <<store, req, outcome, llm_info, args, ranking, results,
                   final, selected, status, llm_calls, embed_calls>>

SsEnter ==
    /\ pc = "ss_entry"
    /\ IF Len(doc_embeddings) = 0
       THEN results' = <<>> /\ pc' = "ss_return"
       ELSE UNCHANGED results /\ pc' = "embed"
    /\ UNCHANGED <<store, req, outcome, llm_info, args, ranking, final,
                   selected, status, llm_calls, embed_calls>>

\* query_vec = embed_texts([query]); an empty array when the Embedder
\* failed, and then return []
SsEmbed ==
    /\ pc = "embed"
    /\ \E v \in Vectors \cup {<<>>} :
        /\ query_vec' = v
        /\ IF v = <<>>
           THEN results' = <<>> /\ pc' = "ss_return"
           ELSE UNCHANGED results /\ pc' = "score"
    /\ embed_calls' = embed_calls + 1
    /\ UNCHANGED <<store, req, outcome, llm_info, args, scores, mask,
                   filtered_scores, final, selected, status, llm_calls>>

\* The inner products and the location boost (location is None or a
\* string: search tests loc against req.query before it calls).
SsScore ==
    /\ pc = "score"
    /\ scores' = Boosted(documents, BaseScores(doc_embeddings, query_vec),
                         args.location)
    /\ pc' = "mask"
    /\ UNCHANGED <<store, req, outcome, llm_info, args, query_vec, mask,
                   filtered_scores, results, final, selected, status,
                   llm_calls, embed_calls>>

\* The hard-filter mask; if not mask.any(): return []
SsMask ==
    /\ pc = "mask"
    /\ mask' = Mask(documents, args.type_name, args.min_price, args.max_price)
    /\ IF NoneKept(mask')
       THEN results' = <<>> /\ pc' = "ss_return"
       ELSE UNCHANGED results /\ pc' = "rank"
    /\ UNCHANGED <<store, req, outcome, llm_info, args, query_vec, scores,
                   filtered_scores, final, selected, status, llm_calls,
                   embed_calls>>

\* The sentinel, argsort, the reversal, the slice and the result loop.
SsRank ==
    /\ pc = "rank"
    /\ filtered_scores' = FilteredScores(scores, mask)
    /\ \E order \in ArgsortOutcomes(filtered_scores') :
        results' = Collect(TopIndices(order, args.top_k), filtered_scores')
    /\ pc' = "ss_return"
    /\ UNCHANGED <<store, req, outcome, llm_info, args, query_vec, scores,
                   mask, final, selected, status, llm_calls, embed_calls>>

\* search builds its SearchResponse from the list semantic_search returned.
Assemble ==
    /\ pc = "ss_return"
    /\ endpoint = "search"
    /\ status' = "ok"
    /\ pc' = "done"
    /\ UNCHANGED <<store, req, outcome, llm_info, args, ranking, results,
                   final, selected, llm_calls, embed_calls>>


\* ------------------------------------------------------------------------
\* search_assets (search.py)
\* ------------------------------------------------------------------------
\* COALESCE(price, 0) and COALESCE(price, 999999999999)
NullMinPrice == <<0, 0>>

NullMaxPrice == <<999999, 999999>>

Coalesce(v, default) == IF IsNone(v) THEN default ELSE v.n

\* _pick(val1, val2)
Pick(val1, val2) == IF ~IsNone(val1) THEN val1 ELSE val2

\* final_query, final_type, final_min, final_max, location_boost
Merged(r, d) ==
    [final_query    |-> PyOr(d["clean_query"], r.query),
     final_type     |-> PyOr(r.type_name, d["type_name"]),
     final_min      |-> Pick(r.min_price, d["min_price"]),
     final_max      |-> Pick(r.max_price, d["max_price"]),
     location_boost |-> d["location"]]

\* The WHERE clause, for one row.
WhereKeeps(row, f) ==
    /\ Truthy(f.final_type) => row.type_name = f.final_type.s
    /\ (~IsNone(f.final_min)) =>
           PriceGeq(Coalesce(row.price_value, NullMinPrice), f.final_min.n)
    /\ (~IsNone(f.final_max)) =>
           PriceLeq(Coalesce(row.price_value, NullMaxPrice), f.final_max.n)

\* A bound parameter the statement cannot take: a category that is not a
\* string, a price bound that is not a number, a negative LIMIT.
BadParameters(f, limit) ==
    \/ Truthy(f.final_type) /\ ~IsStr(f.final_type)
    \/ ~IsNone(f.final_min) /\ ~IsNum(f.final_min)
    \/ ~IsNone(f.final_max) /\ ~IsNum(f.final_max)
    \/ limit < 0

\* ILIKE '%loc%' on the address and the name; f"%{location_boost}%" formats
\* any value, the model's number 5 as "5".
PatternOf(v) == IF IsStr(v) THEN v.s ELSE <<"5">>

ILike(row, v) ==
    \/ Contains(LowerStr(row.road), LowerStr(PatternOf(v)))
    \/ Contains(LowerStr(row.text), LowerStr(PatternOf(v)))

\* 1 - (embedding <=> :embed), the cosine similarity: 1.0 for a row whose
\* vector lies along the query's axis, 0.0 for one across it.
CosineSimilarity(v, q) == IF Dot(v, q) = ScoreZero THEN ScoreZero ELSE <<2, 0>>

\* (1 - (embedding <=> :embed)) + boost, in double precision
FinalScore(row, q, f) ==
    ScoreAdd(CosineSimilarity(row.vec, q),
             IF Truthy(f.location_boost) /\ ILike(row, f.location_boost)
             THEN BOOST
             ELSE ScoreZero)

\* ORDER BY final_score DESC LIMIT :limit over the rows WHERE keeps: the
\* orders of the kept rows by descending score, cut to the limit.
RowOrders(rows, keep, q, f) ==
    {o \in UNION {[1..m -> keep] : m \in {Cardinality(keep)}} :
        /\ \A i, j \in 1..Len(o) : i # j => o[i] # o[j]
        /\ \A i, j \in 1..Len(o) :
              i < j => ScoreLeq(FinalScore(rows[o[j]], q, f),
                                FinalScore(rows[o[i]], q, f))}

\* llm_info = llm_understand_query(req.query)
DbResolve ==
    /\ pc = "received"
    /\ endpoint = "search_assets"
    /\ \E o \in Outcomes :
        /\ outcome' = o
        /\ llm_info' = db_llm_understand_query(o)
    /\ llm_calls' = llm_calls + 1
    /\ pc' = "merge"
    /\ UNCHANGED <<store, req, args, ranking, results, final, selected,
                   status, embed_calls>>

\* The merge of the filters; llm_info.get raises AttributeError when
\* llm_info is not a dict, and nothing catches it.
DbMerge ==
    /\ pc = "merge"
    /\ IF ~llm_info.isdict
       THEN /\ status' = "error"
            /\ pc' = "done"
            /\ UNCHANGED final
       ELSE /\ final' = Merged(req, llm_info.d)
            /\ pc' = "encode"
            /\ UNCHANGED status
    /\ UNCHANGED <<store, req, outcome, llm_info, args, ranking, results,
                   selected, llm_calls, embed_calls>>

\* embed_model.encode(final_query).tolist(); the tokenizer rejects a query
\* that is not a string, outside any try block.
DbEncode ==
    /\ pc = "encode"
    /\ IF ~IsStr(final.final_query)
       THEN /\ status' = "error"
            /\ pc' = "done"
            /\ UNCHANGED query_vec
       ELSE /\ query_vec' \in Vectors
            /\ pc' = "sql"
            /\ UNCHANGED status
    /\ embed_calls' = embed_calls + 1
    /\ UNCHANGED <<store, req, outcome, llm_info, args, scores, mask,
                   filtered_scores, results, final, selected, llm_calls>>

\* The statement is built and executed; an error of the statement becomes
\* HTTPException(status_code=500).
DbQuery ==
    /\ pc = "sql"
    /\ IF BadParameters(final, req.top_k)
       THEN /\ status' = "error"
            /\ UNCHANGED <<selected, results>>
       ELSE /\ selected' = {i \in 1..Len(documents) :
                                WhereKeeps(documents[i], final)}
            /\ \E o \in RowOrders(documents, selected', query_vec, final) :
                  results' = [i \in 1..Len(Slice(o, req.top_k)) |->
                                 [idx |-> o[i],
                                  score |-> FinalScore(documents[o[i]],
                                                       query_vec, final)]]
            /\ status' = "ok"
    /\ pc' = "done"
    /\ UNCHANGED <<store, req, outcome, llm_info, args, ranking, final,
                   llm_calls, embed_calls>>

\* ------------------------------------------------------------------------
\* Specifications
\* ------------------------------------------------------------------------
Next ==
    \/ ResolveFirst
    \/ ResolveAgain
    \/ Augment
    \/ SsEnter
    \/ SsEmbed
    \/ SsScore
    \/ SsMask
    \/ SsRank
    \/ Assemble
    \/ DbResolve
    \/ DbMerge
    \/ DbEncode
    \/ DbQuery

\* One request at either endpoint.
Spec == Init /\ [][Next]_vars

RankNext ==
    \/ SsEnter
    \/ SsEmbed
    \/ SsScore
    \/ SsMask
    \/ SsRank

\* One direct call of semantic_search.
SpecRank == RankInit /\ [][RankNext]_vars


\* ------------------------------------------------------------------------
\* Properties
\* ------------------------------------------------------------------------
\* The text between its first "{" and its last "}" is a JSON object.
HoldsObject(x) ==
    \E i, j \in 1..Len(x) :
        /\ i < j
        /\ x[i] = LBrace /\ \A k \in 1..(i - 1) : x[k] # LBrace
        /\ x[j] = RBrace /\ \A k \in (j + 1)..Len(x) : x[k] # RBrace
        /\ \A k \in (i + 1)..(j - 1) : x[k].k = "member"

\* The capability threw, gave no text, or gave a text that holds no JSON
\* object: empty, prose only, truncated JSON, a bare number, string or list.
Unparseable(o) == o.kind # "text" \/ ~HoldsObject(o.text)

\* search has called llm_understand_query and holds its result.
Resolved == endpoint = "search" /\ pc \in {"docstring", "resolved"}

\* C1: llm_understand_query (HybridSearch.py) returns an intent for every
\* outcome of the capability, never raising, and for every outcome that
\* could not be parsed the intent is the raw query with type_name,
\* min_price, max_price and location all None.
C1_FallbackTotality ==
    Resolved =>
        /\ status = "running"
        /\ llm_info.isdict
        /\ Unparseable(outcome) =>
              llm_info.d = FallbackIntent(request.query.s)

C1_Witness ==
    /\ Resolved
    /\ outcome = Text(<<LBrace, Member("type_name", PyStr(H))>>)
    /\ llm_info.d = FallbackIntent(request.query.s)
    /\ llm_info.d.type_name = PyNone

\* A member whose value the field cannot use: a clean_query, type_name or
\* location that is not a string, a price that does not spell a number.
Unusable(m) ==
    IF m.key \in {"min_price", "max_price"}
    THEN IsStr(m.val) /\ m.val.s \notin {<<"0">>, <<"1">>, <<"2">>}
    ELSE ~IsStr(m.val)

UnusableKeys(ms) == {ms[i].key : i \in {j \in 1..Len(ms) : Unusable(ms[j])}}

\* The capability returned a well-formed object with exactly one unusable
\* field.
OneUnusableField(o) ==
    /\ o.kind = "text"
    /\ \E ms \in MemberLists :
          o.text = Object(ms) /\ Cardinality(UnusableKeys(ms)) = 1

AbsentOrDefault(key) ==
    IF key = "clean_query" THEN PyStr(request.query.s) ELSE PyNone

\* C2: when the capability returns a well-formed JSON object with a single
\* unusable field, the in-memory pipeline never raises: the request
\* completes with a result list and that field of the intent is absent (the
\* raw query for clean_query).
C2_FieldDegrades ==
    (endpoint = "search" /\ pc = "done" /\ OneUnusableField(outcome)) =>
        /\ status = "ok"
        /\ \A ms \in MemberLists :
              outcome.text = Object(ms) =>
                  \A key \in UnusableKeys(ms) :
                      llm_info.d[key] = AbsentOrDefault(key)

\* The spec's FilterEngine: a document passes when every active filter
\* accepts it.
PassesFilters(doc, a) ==
    /\ Truthy(a.type_name) => doc.type_name = a.type_name.s
    /\ (~IsNone(a.min_price)) =>
          (~IsNone(doc.price_value) /\ PriceGeq(doc.price_value.n, a.min_price.n))
    /\ (~IsNone(a.max_price)) =>
          (~IsNone(doc.price_value) /\ PriceLeq(doc.price_value.n, a.max_price.n))

PriceBoundActive == ~IsNone(args.min_price) \/ ~IsNone(args.max_price)

ResultIdxs == {results[i].idx : i \in 1..Len(results)}

\* semantic_search has returned after computing scores and mask.
Ranked ==
    /\ pc = "ss_return"
    /\ Len(scores) = Len(documents)
    /\ Len(mask) = Len(documents)

Kept == {i \in 1..Len(mask) : mask[i]}

\* C3: a document without a price_value never appears in the result of
\* semantic_search while min_price or max_price is given, whatever its
\* score, boost or category.
C3_AbsentPriceExcluded ==
    PriceBoundActive =>
        \A i \in ResultIdxs : ~IsNone(documents[i].price_value)

\* A priceless document that matches the location outscores the best result.
C3_Witness ==
    /\ pc = "ss_return"
    /\ PriceBoundActive
    /\ results # <<>>
    /\ \E i \in 1..Len(documents) :
          /\ IsNone(documents[i].price_value)
          /\ Truthy(args.location)
          /\ MatchesLocation(documents[i], args.location.s)
          /\ ScoreLt(results[1].score, scores[i])

\* C4: for k >= 1 the result has at most k entries, and exactly
\* min(k, number of kept documents) when the final scores of the kept
\* documents are pairwise distinct.
C4_TopKBound ==
    args.top_k >= 1 =>
        /\ Len(results) <= args.top_k
        /\ (/\ Ranked
            /\ \A i, j \in Kept : i # j => scores[i] # scores[j]) =>
              Len(results) = IF args.top_k < Cardinality(Kept)
                             THEN args.top_k
                             ELSE Cardinality(Kept)

C4_Witness ==
    /\ Ranked
    /\ args.top_k = 1
    /\ Cardinality(Kept) = 2
    /\ \A i, j \in Kept : i # j => scores[i] # scores[j]
    /\ Len(results) = 1

\* C5: the location boost never changes membership: no masked-out document
\* is ever in the result, and with k at least the number of documents every
\* kept document is in the result, with or without a location.
C5_BoostNonExclusion ==
    Ranked =>
        /\ ResultIdxs \subseteq Kept
        /\ args.top_k >= Len(documents) => Kept \subseteq ResultIdxs

\* A boosted document is masked out and an unboosted one is returned.
C5_Witness ==
    /\ Ranked
    /\ Truthy(args.location)
    /\ args.top_k >= Len(documents)
    /\ \E i \in 1..Len(documents) :
          ~mask[i] /\ MatchesLocation(documents[i], args.location.s)
    /\ \E j \in ResultIdxs : ~MatchesLocation(documents[j], args.location.s)

\* search has called semantic_search and every document fails a filter.
AllExcluded ==
    /\ endpoint = "search"
    /\ pc \in {"ss_return", "done"}
    /\ args # NoArgs
    /\ \A i \in 1..Len(documents) : ~PassesFilters(documents[i], args)

\* C6: when the active filters together reject every document,
\* semantic_search returns an empty list and search answers with empty
\* results and no error; the filters are never relaxed.
C6_EmptyNotRelaxed ==
    AllExcluded =>
        /\ results = <<>>
        /\ status # "error"
        /\ pc = "done" => status = "ok"

C6_Witness ==
    /\ AllExcluded
    /\ pc = "done"
    /\ status = "ok"
    /\ documents # <<>>
    /\ Len(scores) = Len(documents)
    /\ results = <<>>

\* A price bound: the caller's when given, else the intent's.
PriceWins(caller, intent, effective) ==
    IF ~IsNone(caller) THEN effective = caller ELSE effective = intent

\* A category: the caller's when given, else the intent's when it has one.
TypeWins(caller, intent, effective) ==
    IF Truthy(caller)
    THEN effective = caller
    ELSE Truthy(intent) => effective = intent

\* search has augmented the request; search_assets has merged the filters.
HasAugmented == endpoint = "search" /\ args # NoArgs

HasMerged == endpoint = "search_assets" /\ final # NoFinal

\* C7: in query augmentation a filter the caller supplied always wins: each
\* of min_price, max_price and category is the caller's value when there is
\* one, and the intent's only when the caller gave none; in search and in
\* search_assets alike.
C7_CallerWins ==
    /\ HasAugmented =>
          /\ PriceWins(request.min_price, llm_info.d.min_price, args.min_price)
          /\ PriceWins(request.max_price, llm_info.d.max_price, args.max_price)
          /\ TypeWins(request.type_name, llm_info.d.type_name, args.type_name)
    /\ HasMerged =>
          /\ PriceWins(request.min_price, llm_info.d.min_price, final.final_min)
          /\ PriceWins(request.max_price, llm_info.d.max_price, final.final_max)
          /\ TypeWins(request.type_name, llm_info.d.type_name, final.final_type)

\* Caller and intent give different minimum prices.
C7_Witness ==
    /\ HasAugmented
    /\ pc = "done"
    /\ ~IsNone(request.min_price)
    /\ ~IsNone(llm_info.d.min_price)
    /\ llm_info.d.min_price # request.min_price
    /\ args.min_price = request.min_price

\* C8: the WHERE predicates of search_assets keep exactly the rows the
\* in-memory mask keeps for the same category, min_price and max_price; a
\* row without a selling price satisfies no bound.
C8_WhereMatchesMask ==
    (endpoint = "search_assets" /\ pc = "done" /\ status = "ok") =>
        selected = {i \in 1..Len(documents) :
                       Mask(documents, final.final_type, final.final_min,
                            final.final_max)[i]}

\* The capability threw, or answered with prose, with JSON that is not an
\* object, or with an object whose price fields are not numbers.
GarbageOutcome(o) ==
    \/ o.kind # "text"
    \/ Len(o.text) = 1 /\ o.text[1].k \in {"w", "lit"}
    \/ \E ms \in MemberLists :
          /\ ms # <<>>
          /\ o.text = Object(ms)
          /\ \A i \in 1..Len(ms) :
                ms[i].key \in {"min_price", "max_price"} /\ Unusable(ms[i])

\* C9: in search_assets a failing or garbage-returning capability never
\* fails the request: it goes on with the raw query as the search text and
\* the caller's filters only, and ends without an error status.
C9_DbSurvivesGarbage ==
    (endpoint = "search_assets" /\ pc = "done" /\ GarbageOutcome(outcome)) =>
        /\ status = "ok"
        /\ final.final_query = request.query
        /\ final.final_type = request.type_name
        /\ final.final_min = request.min_price
        /\ final.final_max = request.max_price

\* semantic_search has returned from its ranking loop.
RankedByLoop == Ranked /\ Len(filtered_scores) = Len(documents)

\* C10: the results are in descending order of final score, and of two
\* kept documents with equal final scores the one earlier in documents
\* comes first.
C10_StableDescending ==
    RankedByLoop =>
        \A a, b \in 1..Len(results) :
            a < b =>
                \/ ScoreLt(results[b].score, results[a].score)
                \/ /\ results[a].score = results[b].score
                   /\ results[a].idx < results[b].idx

\* C10 as amended: the results are in descending order of final score, each
\* entry carrying its document's final score, no document twice, and no kept
\* document left out outscores one returned; the order of equal scores is
\* argsort's, reversed, not the order of ingestion.
C10_Descending ==
    RankedByLoop =>
        /\ \A a, b \in 1..Len(results) :
              a < b =>
                  /\ ScoreLeq(results[b].score, results[a].score)
                  /\ results[a].idx # results[b].idx
        /\ \A a \in 1..Len(results) : results[a].score = scores[results[a].idx]
        /\ \A i \in Kept \ ResultIdxs :
              \A a \in 1..Len(results) : ScoreLeq(scores[i], results[a].score)

\* Two equal scores, the later document first.
C10_Witness ==
    /\ RankedByLoop
    /\ Len(results) = 2
    /\ results[1].score = results[2].score
    /\ results[1].idx > results[2].idx

\* Some document passes every active filter of the call.
SomePasses == \E i \in 1..Len(documents) : PassesFilters(documents[i], args)

\* C11: a top_k of zero or less is ranked as a request for one result:
\* exactly one result when some document passes the filters, none when no
\* document passes, never more than one.
C11_ClampedToOne ==
    (Ranked /\ args.top_k <= 0) =>
        Len(results) = IF SomePasses THEN 1 ELSE 0

\* C12: a category filter passed to ranking is one of the labels of the type
\* catalog (asset_type_names); a category from intent resolution that is not
\* a catalog label is never adopted as the filter.
C12_CategoryInCatalog ==
    HasAugmented =>
        ((Truthy(args.type_name) /\ IsStr(args.type_name)) =>
            args.type_name.s \in asset_type_names)

\* C13: one request to search invokes the intent resolver once and the
\* Embedder once, on the augmented query, in the order resolve, augment,
\* embed, score/filter/boost, rank, assemble, no stage twice: no stage has
\* run before the one it follows, and a request that returns results has
\* run each stage once.
C13_OncePerStage ==
    endpoint = "search" =>
        /\ llm_calls <= 1
        /\ embed_calls <= 1
        /\ args # NoArgs => llm_calls = 1
        /\ embed_calls = 1 => (args # NoArgs /\ args.query = req.query)
        /\ scores # <<>> => embed_calls = 1
        /\ mask # <<>> => scores # <<>>
        /\ filtered_scores # <<>> => mask # <<>>
        /\ results # <<>> => filtered_scores # <<>>
        /\ (status = "ok" /\ results # <<>>) =>
              (llm_calls = 1 /\ embed_calls = 1)

\* One step of a request that has nothing to rank.
ShortCircuitStep ==
    /\ (pc = "ss_entry" /\ Len(doc_embeddings) = 0) =>
          /\ pc' = "ss_return"
          /\ results' = <<>>
          /\ UNCHANGED <<ranking, embed_calls, status>>
    /\ (pc = "embed" /\ query_vec' = <<>>) =>
          /\ pc' = "ss_return"
          /\ results' = <<>>
          /\ UNCHANGED <<scores, mask, filtered_scores, status>>
    /\ (pc = "ss_return" /\ endpoint = "search") =>
          /\ pc' = "done"
          /\ status' = "ok"
          /\ UNCHANGED <<results, ranking, embed_calls>>

\* C14: with no candidates, or no vector from the Embedder for the query,
\* the request goes straight to its end with an empty result list and no
\* error; scoring, filtering, boosting and ranking do not run, and with no
\* candidates the Embedder is not invoked.
C14_ShortCircuit == [][ShortCircuitStep]_vars

\* The Embedder gave nothing for the query of a request over documents.
C14_Witness ==
    /\ endpoint = "search"
    /\ pc = "done"
    /\ status = "ok"
    /\ documents # <<>>
    /\ embed_calls = 1
    /\ query_vec = <<>>
    /\ scores = <<>>
    /\ mask = <<>>
    /\ results = <<>>

\* semantic_search has computed scores for the call.
Scored == query_vec # <<>> /\ Len(scores) = Len(documents)

\* The location of the call occurs, letter for letter, in the document's
\* text, road or village.
LocationOccurs(doc) ==
    /\ Truthy(args.location)
    /\ \/ Contains(doc.text, args.location.s)
       \/ Contains(doc.road, args.location.s)
       \/ Contains(doc.village, args.location.s)

BaseScore(i) == Dot(doc_embeddings[i], query_vec)

PositionOf(i) == CHOOSE a \in 1..Len(results) : results[a].idx = i

\* Of two kept documents with equal base scores the first matches the
\* location and the second does not.
OnlyFirstMatches(i, j) ==
    /\ BaseScore(i) = BaseScore(j)
    /\ LocationOccurs(documents[i])
    /\ ~LocationOccurs(documents[j])

RanksAbove(i, j) ==
    j \in ResultIdxs => (i \in ResultIdxs /\ PositionOf(i) < PositionOf(j))

\* C15: the boost added to a document's base score is exactly 0.5 when a
\* location is given and is a case-sensitive substring of its text, road or
\* village, and 0 otherwise (for every document when there is no location);
\* of two kept documents with equal base scores of which one matches, the
\* matching one ranks strictly higher, its final score 0.5 above the other's.
C15_BoostExact ==
    Scored =>
        /\ \A i \in 1..Len(documents) :
              ScoreSub(scores[i], BaseScore(i))
                  = IF LocationOccurs(documents[i]) THEN BOOST ELSE ScoreZero
        /\ RankedByLoop =>
              \A i, j \in Kept :
                  OnlyFirstMatches(i, j) =>
                      /\ RanksAbove(i, j)
                      /\ ScoreSub(scores[i], scores[j]) = BOOST

\* Two scores differ by at most one float32 step of 2^-24.
Near(a, b) ==
    /\ ScoreLeq(ScoreSub(a, b), <<0, 1>>)
    /\ ScoreLeq(ScoreSub(b, a), <<0, 1>>)

\* C15 as amended: a document's final score is its base score when no
\* location is given or the location is not a case-sensitive substring of
\* its text, road or village, and otherwise its base score plus 0.5 as
\* stored in float32, within 2^-24 of the exact sum; of two kept documents
\* with equal base scores of which one matches, the matching one ranks
\* strictly higher, its final score above the other's by 0.5 within 2^-24.
C15_BoostRounded ==
    Scored =>
        /\ \A i \in 1..Len(documents) :
              IF LocationOccurs(documents[i])
              THEN Near(scores[i], ScoreAdd(BaseScore(i), BOOST))
              ELSE scores[i] = BaseScore(i)
        /\ RankedByLoop =>
              \A i, j \in Kept :
                  OnlyFirstMatches(i, j) =>
                      /\ RanksAbove(i, j)
                      /\ ScoreLt(scores[j], scores[i])
                      /\ Near(ScoreSub(scores[i], scores[j]), BOOST)

\* The later of two documents with equal base scores matches and is first;
\* its sum was rounded on the way into the float32 array.
C15_Witness ==
    /\ RankedByLoop
    /\ Len(results) = 2
    /\ results[1].idx = 2
    /\ OnlyFirstMatches(2, 1)
    /\ ScoreSub(results[1].score, results[2].score) = <<0, HalfUlps - 1>>

\* The resolved clean query is exactly a catalog label, and neither the
\* caller nor the intent set a category.
LabelQueryNoCategory ==
    /\ IsStr(llm_info.d.clean_query)
    /\ llm_info.d.clean_query.s \in asset_type_names
    /\ ~Truthy(request.type_name)
    /\ ~Truthy(llm_info.d.type_name)

\* C16: in search, when the resolved clean query equals a catalog label and
\* neither the caller nor the intent set a category, that label is the
\* category filter passed to ranking, also when the intent carries a
\* location that the clean query does not contain.
C16_LabelBecomesCategory ==
    (HasAugmented /\ LabelQueryNoCategory) =>
        args.type_name = llm_info.d.clean_query

=============================================================================
